---- MODULE Spec2Model ----
(***************************************************************************)
(* Model of MatBottomSheetRef (src/material/bottom-sheet/bottom-sheet-ref.ts) *)
(* and of the collaborators it listens to: the container's                 *)
(* _animationStateChanged stream, the overlay's detachments(),             *)
(* backdropClick() and keydownEvents() streams, and the browser timers.    *)
(*                                                                         *)
(* The collaborators are an open environment: the container may emit any   *)
(* animation event at any time, the overlay may report a detachment at any *)
(* time, an armed timer may fire at any time while it is pending.          *)
(*                                                                         *)
(* rxjs semantics used by the source (the file imports its operators from  *)
(* 'rxjs/operators', i.e. rxjs 6 or 7):                                    *)
(*   - take(1) unsubscribes after the first value that passed the filter;  *)
(*   - Subject.next() delivers unless the subject is stopped;              *)
(*   - Subject.complete() sets isStopped; Subject.closed is set only by    *)
(*     Subject.unsubscribe(), which this class never calls.                *)
(***************************************************************************)
EXTENDS Integers, Sequences, FiniteSets, TLC

\* Bound: number of dismiss() invocations explored (programmatic or internal).
MaxDismiss == 2

\* keyCode of the Escape key (@angular/cdk/keycodes) and the grace period
\* added to the animation's totalTime by the fallback timer.
ESCAPE == 27
FallbackGrace == 100

\* Sample inputs.
Results == {"undefined", "ok"}
TotalTimes == {0, 200}
DisableCloseValues == {"true", "false", "undefined"}
ModifierSets == {{}, {"shift"}}
KeyCodes == {ESCAPE, 13}

AnimationEvents ==
    [phaseName : {"start", "done"}, toState : {"visible", "hidden"}, totalTime : TotalTimes]

\* MouseEvent of backdropClick() and KeyboardEvent of keydownEvents(), as emitted
OverlayEvents ==
    [type : {"click"}, keyCode : {0}, modifiers : ModifierSets, defaultPrevented : {FALSE}]
        \cup [type : {"keydown"}, keyCode : KeyCodes, modifiers : ModifierSets,
              defaultPrevented : {FALSE}]

\* no event emitted yet
NoEvent == [type |-> "none", keyCode |-> 0, modifiers |-> {}, defaultPrevented |-> FALSE]

VARIABLES
    configDisableClose,   \* containerInstance.bottomSheetConfig.disableClose
    disableClose,         \* this.disableClose
    afterDismissed,       \* this._afterDismissed (Subject state)
    afterOpened,          \* this._afterOpened (Subject state)
    result,               \* this._result
    closeFallbackTimeout, \* this._closeFallbackTimeout: 0 (undefined) or a timer id
    openedSub,            \* subscription of lines 48-56 still active
    closedSub,            \* subscription of lines 59-67 still active
    detachSub,            \* subscription of lines 69-75 still active
    startListeners,       \* number of active subscriptions made by dismiss() (lines 98-114)
    timers,               \* browser timers created by setTimeout, by id
    \* what the collaborators and the observers of the streams have seen
    disposed,             \* calls of _overlayRef.dispose(), in order, by caller
    detachBackdropCalls,  \* calls of _overlayRef.detachBackdrop()
    exitCalls,            \* calls of containerInstance.exit()
    resultAtExit,         \* this._result as it was when exit() was last invoked
    listenerAtExit,       \* the start listener of the last effective dismiss() was subscribed when it invoked exit()
    lastEvent,            \* the DOM event last emitted by the overlay, with its defaultPrevented flag
    openedEmitted,        \* notifications delivered on afterOpened()
    dismissedEmitted,     \* payloads delivered on afterDismissed(), in order
    \* history
    dismissCalls,         \* invocations of dismiss()
    resultWrites,         \* assignments to this._result
    lastArg               \* argument of the last dismiss() made before the detachment notification

vars == <<configDisableClose, disableClose, afterDismissed, afterOpened, result,
          closeFallbackTimeout, openedSub, closedSub, detachSub, startListeners, timers,
          disposed, detachBackdropCalls, exitCalls, resultAtExit, listenerAtExit,
          lastEvent, openedEmitted, dismissedEmitted,
          dismissCalls, resultWrites, lastArg>>

openVars == <<afterOpened, openedSub, openedEmitted>>
detachVars == <<afterDismissed, detachSub, dismissedEmitted>>
dismissVars == <<startListeners, result, exitCalls, resultAtExit, listenerAtExit,
                 dismissCalls, resultWrites, lastArg>>
closeVars == <<closeFallbackTimeout, closedSub, timers, disposed, detachBackdropCalls>>

----------------------------------------------------------------------------
\* rxjs Subject

NewSubject == [isStopped |-> FALSE, closed |-> FALSE]

\* Subject.next(): does the value reach the observers?
SubjectDelivers(s) == ~s.isStopped /\ ~s.closed

\* Subject.complete()
SubjectComplete(s) == [s EXCEPT !.isStopped = TRUE]

\* JavaScript truthiness of the disableClose field (boolean | undefined)
Truthy(v) == v = "true"

\* hasModifierKey(event): altKey || shiftKey || ctrlKey || metaKey
hasModifierKey(event) == event.modifiers # {}

----------------------------------------------------------------------------
\* Browser timers

\* setTimeout(callback, delay): one more pending timer; its id is its index
SetTimeout(ts, delay) == Append(ts, [delay |-> delay, state |-> "pending"])

\* clearTimeout(handle): cancels that timer if it is still pending
ClearTimeout(ts, handle) ==
    IF handle \in DOMAIN ts /\ ts[handle].state = "pending"
    THEN [ts EXCEPT ![handle].state = "cleared"]
    ELSE ts

RECURSIVE SetTimeouts(_, _, _)
SetTimeouts(ts, n, delay) ==
    IF n = 0 THEN ts ELSE SetTimeouts(SetTimeout(ts, delay), n - 1, delay)

----------------------------------------------------------------------------
\* Filters of the subscriptions

\* variant: the toState test is missing
OpenedFilterAnyDone(event) == event.phaseName = "done"

OpenedFilter(event) == event.phaseName = "done" /\ event.toState = "visible"

ClosedFilter(event) == event.phaseName = "done" /\ event.toState = "hidden"

\* variant: only the start of the exit animation is let through
StartFilterHiddenOnly(event) == event.phaseName = "start" /\ event.toState = "hidden"

StartFilter(event) == event.phaseName = "start"

\* variant: backdrop clicks are not merged in
MergedFilterKeysOnly(event) == event.keyCode = ESCAPE

\* merge(backdropClick(), keydownEvents().pipe(filter(keyCode === ESCAPE)))
MergedFilter(event) == event.type = "click" \/ event.keyCode = ESCAPE

\* variant: consults the value copied from the container config
ShouldDismissConfig(event) ==
    /\ ~Truthy(configDisableClose)
    /\ (event.type # "keydown" \/ ~hasModifierKey(event))

\* variant: the modifier test is missing
ShouldDismissAnyModifier(event) == ~Truthy(disableClose)

\* variant: the modifier test is applied to every event type
ShouldDismissUnmodifiedOnly(event) ==
    /\ ~Truthy(disableClose)
    /\ ~hasModifierKey(event)

\* the condition of lines 81-84
ShouldDismiss(event) ==
    /\ ~Truthy(disableClose)
    /\ (event.type # "keydown" \/ ~hasModifierKey(event))

----------------------------------------------------------------------------
\* variant: the constructor already subscribes a start listener
InitStartSubscribed ==
    /\ configDisableClose \in DisableCloseValues
    /\ disableClose = configDisableClose
    /\ afterDismissed = NewSubject
    /\ afterOpened = NewSubject
    /\ result = "undefined"
    /\ closeFallbackTimeout = 0
    /\ openedSub = TRUE
    /\ closedSub = TRUE
    /\ detachSub = TRUE
    /\ startListeners = 1
    /\ timers = <<>>
    /\ disposed = <<>>
    /\ detachBackdropCalls = 0
    /\ exitCalls = 0
    /\ resultAtExit = "undefined"
    /\ listenerAtExit = FALSE
    /\ lastEvent = NoEvent
    /\ openedEmitted = 0
    /\ dismissedEmitted = <<>>
    /\ dismissCalls = 0
    /\ resultWrites = 0
    /\ lastArg = "undefined"

\* the state after the constructor, lines 43-89
Init ==
    /\ configDisableClose \in DisableCloseValues
    /\ disableClose = configDisableClose
    /\ afterDismissed = NewSubject
    /\ afterOpened = NewSubject
    /\ result = "undefined"
    /\ closeFallbackTimeout = 0
    /\ openedSub = TRUE
    /\ closedSub = TRUE
    /\ detachSub = TRUE
    /\ startListeners = 0
    /\ timers = <<>>
    /\ disposed = <<>>
    /\ detachBackdropCalls = 0
    /\ exitCalls = 0
    /\ resultAtExit = "undefined"
    /\ listenerAtExit = FALSE
    /\ lastEvent = NoEvent
    /\ openedEmitted = 0
    /\ dismissedEmitted = <<>>
    /\ dismissCalls = 0
    /\ resultWrites = 0
    /\ lastArg = "undefined"

----------------------------------------------------------------------------
\* variant: the first stored result is kept
DismissBodyKeepFirst(r) ==
    /\ dismissCalls' = dismissCalls + 1
    /\ lastArg' = IF detachSub THEN r ELSE lastArg
    /\ IF ~afterDismissed.closed
       THEN /\ startListeners' = startListeners + 1
            /\ result' = IF resultWrites = 0 THEN r ELSE result
            /\ resultWrites' = resultWrites + 1
            /\ exitCalls' = exitCalls + 1
            /\ resultAtExit' = result'
            /\ listenerAtExit' = TRUE
       ELSE UNCHANGED <<startListeners, result, resultWrites, exitCalls,
                        resultAtExit, listenerAtExit>>

\* variant: exit() is invoked before the result is stored
DismissBodyExitFirst(r) ==
    /\ dismissCalls' = dismissCalls + 1
    /\ lastArg' = IF detachSub THEN r ELSE lastArg
    /\ IF ~afterDismissed.closed
       THEN /\ startListeners' = startListeners + 1
            /\ exitCalls' = exitCalls + 1
            /\ resultAtExit' = result
            /\ listenerAtExit' = TRUE
            /\ result' = r
            /\ resultWrites' = resultWrites + 1
       ELSE UNCHANGED <<startListeners, result, resultWrites, exitCalls,
                        resultAtExit, listenerAtExit>>

\* variant: dismiss() does nothing while disableClose is set
DismissBodyUnlessDisabled(r) ==
    /\ dismissCalls' = dismissCalls + 1
    /\ lastArg' = IF detachSub THEN r ELSE lastArg
    /\ IF ~afterDismissed.closed /\ ~Truthy(disableClose)
       THEN /\ startListeners' = startListeners + 1
            /\ result' = r
            /\ resultWrites' = resultWrites + 1
            /\ exitCalls' = exitCalls + 1
            /\ resultAtExit' = r
            /\ listenerAtExit' = TRUE
       ELSE UNCHANGED <<startListeners, result, resultWrites, exitCalls,
                        resultAtExit, listenerAtExit>>

\* variant: exit() is invoked before the start listener is subscribed
DismissBodySubscribeLast(r) ==
    /\ dismissCalls' = dismissCalls + 1
    /\ lastArg' = IF detachSub THEN r ELSE lastArg
    /\ IF ~afterDismissed.closed
       THEN /\ result' = r
            /\ resultWrites' = resultWrites + 1
            /\ exitCalls' = exitCalls + 1
            /\ resultAtExit' = r
            /\ listenerAtExit' = FALSE
            /\ startListeners' = startListeners + 1
       ELSE UNCHANGED <<startListeners, result, resultWrites, exitCalls,
                        resultAtExit, listenerAtExit>>

\* dismiss(result), lines 95-119: what one invocation does to the state.
\* Line 96 reads Subject.closed; lines 98-114 subscribe; line 116 stores the
\* result; line 117 calls exit(), which therefore sees the new result and
\* the new listener.
DismissBody(r) ==
    /\ dismissCalls' = dismissCalls + 1
    /\ lastArg' = IF detachSub THEN r ELSE lastArg
    /\ IF ~afterDismissed.closed
       THEN /\ startListeners' = startListeners + 1
            /\ result' = r
            /\ resultWrites' = resultWrites + 1
            /\ exitCalls' = exitCalls + 1
            /\ resultAtExit' = r
            /\ listenerAtExit' = TRUE
       ELSE UNCHANGED <<startListeners, result, resultWrites, exitCalls,
                        resultAtExit, listenerAtExit>>

\* variant: dismiss() notifies afterDismissed itself
DismissNotifying(r) ==
    /\ dismissCalls < MaxDismiss
    /\ DismissBody(r)
    /\ dismissedEmitted' = Append(dismissedEmitted, r)
    /\ UNCHANGED <<afterDismissed, detachSub>>
    /\ UNCHANGED <<configDisableClose, disableClose, lastEvent>>
    /\ UNCHANGED <<openVars, closeVars>>

\* a caller invokes dismiss(r)
Dismiss(r) ==
    /\ dismissCalls < MaxDismiss
    /\ DismissBody(r)
    /\ UNCHANGED <<configDisableClose, disableClose, lastEvent>>
    /\ UNCHANGED <<openVars, detachVars, closeVars>>

\* the subscriber of lines 80-88 handles one event of the merged stream
OverlayHandler(event) ==
    IF MergedFilter(event) /\ ShouldDismiss(event)
    THEN /\ dismissCalls < MaxDismiss
         /\ lastEvent' = [event EXCEPT !.defaultPrevented = TRUE]
         /\ DismissBody("undefined")
    ELSE /\ lastEvent' = event
         /\ UNCHANGED dismissVars

\* the overlay emits a backdrop click or a keydown event
OverlayEvent(event) ==
    /\ OverlayHandler(event)
    /\ UNCHANGED <<configDisableClose, disableClose>>
    /\ UNCHANGED <<openVars, detachVars, closeVars>>

\* the subscriber of lines 53-56
OpenedSubscriber(event) ==
    IF openedSub /\ OpenedFilter(event)
    THEN /\ openedEmitted' = IF SubjectDelivers(afterOpened)
                             THEN openedEmitted + 1 ELSE openedEmitted
         /\ afterOpened' = SubjectComplete(afterOpened)
         /\ openedSub' = FALSE
    ELSE UNCHANGED openVars

\* variant: the start listeners lack take(1)
CloseSubscribersNoTake(event) ==
    LET closes == closedSub /\ ClosedFilter(event)
        starts == IF StartFilter(event) THEN startListeners ELSE 0
        cleared == IF closes THEN ClearTimeout(timers, closeFallbackTimeout) ELSE timers
        armed == SetTimeouts(cleared, starts, event.totalTime + FallbackGrace)
    IN  /\ timers' = armed
        /\ disposed' = IF closes THEN Append(disposed, "animation") ELSE disposed
        /\ closedSub' = (closedSub /\ ~closes)
        /\ closeFallbackTimeout' = IF starts > 0 THEN Len(armed) ELSE closeFallbackTimeout
        /\ detachBackdropCalls' = detachBackdropCalls + starts
        /\ startListeners' = startListeners

\* the subscriber of lines 64-67 followed by the subscribers of lines 103-114,
\* in subscription order
CloseSubscribers(event) ==
    LET closes == closedSub /\ ClosedFilter(event)
        starts == IF StartFilter(event) THEN startListeners ELSE 0
        cleared == IF closes THEN ClearTimeout(timers, closeFallbackTimeout) ELSE timers
        armed == SetTimeouts(cleared, starts, event.totalTime + FallbackGrace)
    IN  /\ timers' = armed
        /\ disposed' = IF closes THEN Append(disposed, "animation") ELSE disposed
        /\ closedSub' = (closedSub /\ ~closes)
        /\ closeFallbackTimeout' = IF starts > 0 THEN Len(armed) ELSE closeFallbackTimeout
        /\ detachBackdropCalls' = detachBackdropCalls + starts
        /\ startListeners' = startListeners - starts

\* the container emits an event on _animationStateChanged
AnimationStateChanged(event) ==
    /\ OpenedSubscriber(event)
    /\ CloseSubscribers(event)
    /\ UNCHANGED <<configDisableClose, disableClose, lastEvent>>
    /\ UNCHANGED <<result, exitCalls, resultAtExit, listenerAtExit,
                   dismissCalls, resultWrites, lastArg>>
    /\ UNCHANGED detachVars

\* the callback of lines 109-111
FallbackCallback ==
    disposed' = Append(disposed, "timer")

\* timer id elapses
FallbackTimerFires(id) ==
    /\ id \in DOMAIN timers
    /\ timers[id].state = "pending"
    /\ timers' = [timers EXCEPT ![id].state = "fired"]
    /\ FallbackCallback
    /\ UNCHANGED <<configDisableClose, disableClose, lastEvent>>
    /\ UNCHANGED <<closeFallbackTimeout, closedSub, detachBackdropCalls>>
    /\ UNCHANGED <<openVars, detachVars, dismissVars>>

\* the subscriber of lines 72-75
DetachSubscriber ==
    IF detachSub
    THEN /\ dismissedEmitted' = IF SubjectDelivers(afterDismissed)
                                THEN Append(dismissedEmitted, result)
                                ELSE dismissedEmitted
         /\ afterDismissed' = SubjectComplete(afterDismissed)
         /\ detachSub' = FALSE
    ELSE UNCHANGED detachVars

\* the overlay emits on detachments()
Detachment ==
    /\ DetachSubscriber
    /\ UNCHANGED <<configDisableClose, disableClose, lastEvent>>
    /\ UNCHANGED <<openVars, closeVars, dismissVars>>

\* a caller assigns the public field disableClose
SetDisableClose(v) ==
    /\ disableClose' = v
    /\ UNCHANGED <<configDisableClose, lastEvent>>
    /\ UNCHANGED <<openVars, detachVars, closeVars, dismissVars>>

Next ==
    \/ \E r \in Results : Dismiss(r)
    \/ \E event \in OverlayEvents : OverlayEvent(event)
    \/ \E event \in AnimationEvents : AnimationStateChanged(event)
    \/ \E id \in 1..MaxDismiss : FallbackTimerFires(id)
    \/ Detachment
    \/ \E v \in DisableCloseValues : SetDisableClose(v)

Spec == Init /\ [][Next]_vars

----------------------------------------------------------------------------
\* Claims

\* C1: dispose() is invoked at most once by the controller, whatever the
\* interleaving of dismiss() calls, overlay events, animation events, timer
\* firings and detachments.
C1_DisposeAtMostOnce == Len(disposed) <= 1

\* C2: once dismiss() has been called twice, exit() has been invoked exactly
\* once in total and dispose() no more than once.
C2_DismissTwiceSameAsOnce ==
    dismissCalls = 2 => (exitCalls = 1 /\ Len(disposed) <= 1)

\* all armed fallback timers have elapsed
AllTimersFired ==
    timers # <<>> /\ \A id \in DOMAIN timers : timers[id].state = "fired"

\* C3: after dismiss() and a start event, with no done/hidden event delivered
\* (the subscription of line 59 still waits), once the armed fallback timers
\* have elapsed dispose() has been invoked exactly once, by the timer.
C3_FallbackDisposesExactlyOnce ==
    (dismissCalls >= 1 /\ closedSub /\ AllTimersFired) => disposed = <<"timer">>

\* the done/hidden handler found the fallback timer pending and cancelled it
DoneHiddenClearedTimer ==
    \E id \in DOMAIN timers : timers[id].state = "cleared"

\* C4: when the done/hidden event is delivered while the fallback timer is
\* pending, no timer firing invokes dispose() after the done/hidden handler
\* has disposed the overlay.
C4_NoTimerDisposalAfterDone ==
    DoneHiddenClearedTimer =>
        \A i, j \in DOMAIN disposed :
            (i < j /\ disposed[i] = "animation") => disposed[j] # "timer"

\* C5: afterDismissed() emits at most one notification, and only in the step
\* in which the first detachment notification is handled; no dismiss(),
\* animation event or timer firing emits on it.
C5_AfterDismissedOnlyOnDetachment ==
    [][ /\ Len(dismissedEmitted') <= 1
        /\ (dismissedEmitted' # dismissedEmitted) =>
               (detachSub /\ ~detachSub' /\ Detachment) ]_vars

C5_Witness ==
    /\ Len(dismissedEmitted) = 1
    /\ ~detachSub
    /\ dismissCalls >= 1
    /\ Len(disposed) >= 1

\* C6: the payload emitted on afterDismissed() is the argument of the last
\* dismiss() call made before the detachment notification (undefined for the
\* internal calls and when dismiss() was never called).
C6_PayloadIsLastDismissArgument ==
    \A i \in DOMAIN dismissedEmitted : dismissedEmitted[i] = lastArg

C6_Witness ==
    /\ dismissedEmitted = <<"ok">>
    /\ lastEvent.defaultPrevented
    /\ result = "ok"
    /\ dismissCalls = 2

C8_DismissAfterDismissedIsNoOp ==
    [][ (Len(dismissedEmitted) = 1 /\ afterDismissed.isStopped) =>
            /\ exitCalls' = exitCalls
            /\ result' = result
            /\ resultWrites' = resultWrites
            /\ startListeners' <= startListeners ]_vars

\* C9: afterOpened() emits at most one notification and then completes, and
\* only in a step that delivers an animation event with phaseName "done" and
\* toState "visible".
C9_AfterOpenedOnceOnDoneVisible ==
    [][ /\ openedEmitted' <= 1
        /\ (openedEmitted' # openedEmitted) =>
               /\ afterOpened'.isStopped
               /\ \E e \in AnimationEvents :
                      /\ e.phaseName = "done"
                      /\ e.toState = "visible"
                      /\ AnimationStateChanged(e) ]_vars

C9_Witness ==
    /\ openedEmitted = 1
    /\ afterOpened.isStopped
    /\ ~openedSub

\* C10: a backdrop click or keydown delivered while disableClose is true (the
\* field's value at that moment) does not dismiss: no exit(), no change of
\* resultValue, no start listener, and the event's default is not prevented.
\* Stated contrapositively: while disableClose is true, a step that leaves a
\* prevented event, invokes exit(), writes resultValue or adds a start
\* listener is not the delivery of an overlay event.
C10_NoDismissWhileCloseDisabled ==
    [][ (/\ Truthy(disableClose)
         /\ \/ lastEvent'.defaultPrevented
            \/ exitCalls' # exitCalls
            \/ result' # result
            \/ resultWrites' # resultWrites
            \/ startListeners' > startListeners
            \/ dismissCalls' # dismissCalls)
        => ~(\E e \in OverlayEvents : OverlayEvent(e)) ]_vars

\* an unmodified Escape was delivered and ignored although the container
\* config allowed closing
C10_Witness ==
    /\ lastEvent.type = "keydown"
    /\ lastEvent.keyCode = ESCAPE
    /\ lastEvent.modifiers = {}
    /\ ~lastEvent.defaultPrevented
    /\ Truthy(disableClose)
    /\ ~Truthy(configDisableClose)
    /\ exitCalls = 0

\* C11: the delivery of an Escape keydown with a modifier key held never
\* dismisses, whatever disableClose is: no dismiss() call, no exit(), no
\* change of resultValue, and the event's default is not prevented.
C11_ModifiedEscapeNeverDismisses ==
    [][ \A e \in OverlayEvents :
            (e.type = "keydown" /\ e.keyCode = ESCAPE /\ e.modifiers # {} /\ OverlayEvent(e)) =>
                /\ UNCHANGED <<exitCalls, result, resultWrites, startListeners, dismissCalls>>
                /\ lastEvent' = e
                /\ ~lastEvent'.defaultPrevented ]_vars

\* Shift+Escape was delivered and ignored while closing was allowed
C11_Witness ==
    /\ lastEvent.type = "keydown"
    /\ lastEvent.keyCode = ESCAPE
    /\ lastEvent.modifiers = {"shift"}
    /\ ~lastEvent.defaultPrevented
    /\ ~Truthy(disableClose)
    /\ ~Truthy(configDisableClose)
    /\ dismissCalls = 0

\* C12: with disableClose false, the delivery of a backdrop click or of an
\* Escape keydown without modifiers prevents the event's default and invokes
\* dismiss() with no result; on an instance whose exit() was never invoked,
\* exit() has then been invoked exactly once, with resultValue undefined.
C12_BackdropOrEscapeDismisses ==
    [][ \A e \in OverlayEvents :
            (/\ e.type = "click" \/ (e.keyCode = ESCAPE /\ e.modifiers = {})
             /\ ~Truthy(disableClose)
             /\ OverlayEvent(e)) =>
                /\ lastEvent' = [e EXCEPT !.defaultPrevented = TRUE]
                /\ dismissCalls' = dismissCalls + 1
                /\ detachSub => lastArg' = "undefined"
                /\ exitCalls = 0 =>
                       (exitCalls' = 1 /\ result' = "undefined" /\ resultAtExit' = "undefined") ]_vars

\* a backdrop click dismissed a fresh instance
C12_Witness ==
    /\ lastEvent.type = "click"
    /\ lastEvent.defaultPrevented
    /\ dismissCalls = 1
    /\ exitCalls = 1
    /\ result = "undefined"

\* C13: a programmatic dismiss(r) on an instance that has not reported its
\* dismissal stores r and invokes exit() whatever the value of disableClose,
\* and leaves disableClose as it is.
C13_DismissIgnoresDisableClose ==
    [][ \A r \in Results :
            (detachSub /\ Dismiss(r)) =>
                /\ result' = r
                /\ exitCalls' = exitCalls + 1
                /\ resultAtExit' = r
                /\ disableClose' = disableClose ]_vars

\* dismiss("ok") took effect on an instance configured with disableClose
C13_Witness ==
    /\ Truthy(configDisableClose)
    /\ Truthy(disableClose)
    /\ lastEvent = NoEvent
    /\ dismissCalls = 1
    /\ exitCalls = 1
    /\ result = "ok"

\* C14: every detachBackdrop() call comes with the arming of one fallback
\* timer, in a step that delivers a start-phase event to waiting listeners of
\* dismiss(); each effective dismiss() accounts for at most one such call
\* (its listener is either still waiting or has detached once), so none
\* happens before dismiss() and later start events add none.
C14_DetachBackdropOncePerDismiss ==
    [][ /\ detachBackdropCalls' = Len(timers')
        /\ detachBackdropCalls' + startListeners' = exitCalls'
        /\ (detachBackdropCalls' # detachBackdropCalls) =>
               /\ startListeners > 0
               /\ startListeners' = 0
               /\ \E e \in AnimationEvents :
                      e.phaseName = "start" /\ AnimationStateChanged(e) ]_vars

\* one dismiss(), its start event handled: one timer, one detachBackdrop()
C14_Witness ==
    /\ exitCalls = 1
    /\ startListeners = 0
    /\ detachBackdropCalls = 1
    /\ Len(timers) = 1

C16_OnlyHandleTimerPending ==
    \A id \in DOMAIN timers :
        timers[id].state = "pending" => id = closeFallbackTimeout

\* C17: as long as dismiss() has not been invoked no fallback timer exists,
\* the handle is unset and the backdrop is not detached; a start-phase event
\* delivered then (such as the start of the opening animation) is accepted
\* and arms and detaches nothing.
C17_NoTimerBeforeDismiss ==
    dismissCalls = 0 =>
        /\ timers = <<>>
        /\ closeFallbackTimeout = 0
        /\ detachBackdropCalls = 0
        /\ \A e \in AnimationEvents :
               e.phaseName = "start" =>
                   ENABLED (/\ AnimationStateChanged(e)
                            /\ timers' = <<>>
                            /\ closeFallbackTimeout' = 0
                            /\ detachBackdropCalls' = 0)

\* the opening animation has run to its end and dismiss() was never called
C17_Witness ==
    /\ dismissCalls = 0
    /\ openedEmitted = 1
    /\ timers = <<>>
    /\ detachBackdropCalls = 0

\* C18: while listeners of dismiss() wait, a start-phase event of either
\* toState is taken by them: each arms a pending timer of that event's
\* totalTime + 100, the handle refers to the last one, the backdrop is
\* detached and no listener remains; once none waits, a start-phase event
\* (such as a later start/hidden) arms and detaches nothing.
C18_FirstStartOfAnyStateArms ==
    \A e \in AnimationEvents :
        e.phaseName = "start" =>
            IF startListeners > 0
            THEN ENABLED (/\ AnimationStateChanged(e)
                          /\ Len(timers') = Len(timers) + startListeners
                          /\ \A id \in (Len(timers) + 1)..Len(timers') :
                                 timers'[id] = [delay |-> e.totalTime + 100, state |-> "pending"]
                          /\ \A id \in DOMAIN timers : timers'[id] = timers[id]
                          /\ closeFallbackTimeout' = Len(timers')
                          /\ detachBackdropCalls' = detachBackdropCalls + startListeners
                          /\ startListeners' = 0)
            ELSE ENABLED (/\ AnimationStateChanged(e)
                          /\ UNCHANGED <<timers, closeFallbackTimeout, detachBackdropCalls>>)

\* dismiss() was called while the panel was still opening and a start event
\* of totalTime 200 has armed its timer
C18_Witness ==
    /\ exitCalls = 1
    /\ openedSub
    /\ startListeners = 0
    /\ timers = <<[delay |-> 300, state |-> "pending"]>>
    /\ closeFallbackTimeout = 1
    /\ detachBackdropCalls = 1

\* C19: with disableClose false the delivery of a backdrop click invokes
\* dismiss() and prevents the default whether or not modifier keys are held;
\* the delivery of a keydown other than Escape never invokes dismiss().
C19_ModifiersMatterForKeydownOnly ==
    [][ \A e \in OverlayEvents :
            OverlayEvent(e) =>
                /\ (e.type = "click" /\ ~Truthy(disableClose)) =>
                       /\ lastEvent' = [e EXCEPT !.defaultPrevented = TRUE]
                       /\ dismissCalls' = dismissCalls + 1
                /\ (e.type = "keydown" /\ e.keyCode # ESCAPE) =>
                       /\ lastEvent' = e
                       /\ UNCHANGED <<dismissCalls, exitCalls, result, resultWrites,
                                      startListeners>> ]_vars

\* a click with Shift held dismissed the sheet
C19_Witness ==
    /\ lastEvent.type = "click"
    /\ lastEvent.modifiers = {"shift"}
    /\ lastEvent.defaultPrevented
    /\ dismissCalls = 1
    /\ exitCalls = 1

====
